---- MODULE Spec2Model ----
(***************************************************************************)
(* Model of the country-api refresh pipeline.                              *)
(*                                                                         *)
(* The repository carries two texts of the request handlers: the one in    *)
(* src/database.js (lines 24-373, with per-stage error handling) and the   *)
(* one in src/controller.js (without it).  The per-record loop, the        *)
(* aggregate reads and the rendering are the same text in both; the        *)
(* table creation, the two fetches, the parse step, getStatus and          *)
(* deleteCountry differ, and are modelled once per text (the               *)
(* controller.js actions carry the prefix C_).  Spec is the server with    *)
(* the handlers of database.js, C_Spec the server with those of            *)
(* controller.js.                                                          *)
(***************************************************************************)
EXTENDS Integers, Sequences, FiniteSets, TLC

(***************************************************************************)
(* JavaScript / SQL values.  Every value is tagged with its type so that   *)
(* null, undefined, numbers, strings, arrays and objects stay distinct.    *)
(* A "ratio" is a JavaScript number kept exactly as numerator/denominator  *)
(* (the model does not round to a double).                                 *)
(***************************************************************************)
Undefined == [t |-> "undefined", v |-> {}]
Null == [t |-> "null", v |-> {}]
Num(n) == [t |-> "number", v |-> {n}]
Str(s) == [t |-> "string", v |-> {s}]
Arr(s) == [t |-> "array", v |-> {s}]
Obj(f) == [t |-> "object", v |-> {f}]
Ratio(n, d) == [t |-> "ratio", v |-> {<<n, d>>}]
\* The body of a response that is not JSON text: json() throws on it.
Unparsable == [t |-> "unparsable", v |-> {}]

Val(x) == CHOOSE e \in x.v : TRUE

IsNullish(x) == x.t \in {"null", "undefined"}

\* JavaScript truthiness, as used by the ?: tests of the loop body.
Truthy(x) ==
    CASE x.t \in {"null", "undefined"} -> FALSE
      [] x.t = "number" -> Val(x) # 0
      [] x.t = "string" -> Val(x) # ""
      [] OTHER -> TRUE

(***************************************************************************)
(* Bounds of the model.                                                    *)
(***************************************************************************)
\* Longest country list a fetch returns.
MaxCountries == 2
\* Largest value of the clock, which advances with every refresh request.
MaxClock == 2

(***************************************************************************)
(* Program constants.                                                      *)
(***************************************************************************)
RandomMin == 1000
RandomMax == 2000
TopLimit == 5

RequiredKeys == {"name", "capital", "region", "population", "currencies", "flag"}

(***************************************************************************)
(* utils.js: replaceUndefined.  ReplaceValue is the treatment of one       *)
(* property value inside the for-in loop.                                  *)
(***************************************************************************)
RECURSIVE replaceUndefined(_, _)
RECURSIVE ReplaceValue(_)

ReplaceValue(x) ==
    CASE x.t = "undefined" -> Null
      [] x.t = "array" -> replaceUndefined(x, {})
      [] x.t = "object" -> replaceUndefined(x, {})
      [] OTHER -> x

\* The loop over requiredKeys left out: absent keys stay absent.
replaceUndefinedNoRequired(obj, requiredKeys) ==
    CASE obj.t = "object" ->
            LET f == Val(obj)
            IN  Obj([k \in DOMAIN f |-> ReplaceValue(f[k])])
      [] obj.t = "array" ->
            LET s == Val(obj)
            IN  Arr([j \in 1..Len(s) |-> ReplaceValue(s[j])])
      [] OTHER -> obj

replaceUndefined(obj, requiredKeys) ==
    CASE obj.t = "object" ->
            LET f == Val(obj)
            IN  Obj([k \in (DOMAIN f) \cup requiredKeys |->
                        IF k \in DOMAIN f THEN ReplaceValue(f[k]) ELSE Null])
      [] obj.t = "array" ->
            \* for-in over an array visits its indices; the recursive calls
            \* pass no required keys
            LET s == Val(obj)
            IN  Arr([j \in 1..Len(s) |-> ReplaceValue(s[j])])
      [] OTHER -> obj

\* obj[key] / destructuring: a missing property reads as undefined.
Prop(obj, key) ==
    IF obj.t = "object" /\ key \in DOMAIN Val(obj) THEN Val(obj)[key] ELSE Undefined

\* const { name, ... } = country throws a TypeError on null and undefined.
DestructureThrows(country) == IsNullish(country)

(***************************************************************************)
(* The loop body of postCountries, database.js 174-196 (the same text is   *)
(* controller.js 109-131).                                                 *)
(***************************************************************************)
\* currencies?.[0]?.code ?? null
CurrencyCode(currencies) ==
    LET first == IF currencies.t = "array" /\ Len(Val(currencies)) > 0
                 THEN Val(currencies)[1] ELSE Undefined
        code == IF IsNullish(first) THEN Undefined ELSE Prop(first, "code")
    IN  IF IsNullish(code) THEN Null ELSE code

\* exchangeRateData[currencyCode] throws when exchangeRateData is undefined
\* or null; the lookup happens only for a truthy currency code.
RateLookupThrows(currencyCode, exchangeRateData) ==
    Truthy(currencyCode) /\ IsNullish(exchangeRateData)

ExchangeRate(currencyCode, exchangeRateData) ==
    IF Truthy(currencyCode)
    THEN IF Truthy(Prop(exchangeRateData, Val(currencyCode)))
         THEN Prop(exchangeRateData, Val(currencyCode))
         ELSE Null
    ELSE Null

\* Math.floor(Math.random() * (2000 - 1000 + 1)) + 1000, with Math.random()
\* returning u / (RandomMax - RandomMin + 1) for an integer u.
RandomNumber(u) ==
    ((u * (RandomMax - RandomMin + 1)) \div (RandomMax - RandomMin + 1)) + RandomMin

\* ToNumber of the population operand of the product (null converts to 0).
ToNumber(x) == IF x.t = "number" THEN Val(x) ELSE 0

\* A currency code without a rate estimated as 0 instead of null.
EstimatedGdpZeroWhenNoRate(population, currencyCode, exchange_rate, randomNumber) ==
    IF Truthy(currencyCode) /\ Truthy(exchange_rate)
    THEN Ratio(ToNumber(population) * randomNumber, Val(exchange_rate))
    ELSE Ratio(0, 1)

\* The scalar multiplied twice.
EstimatedGdpScaledTwice(population, currencyCode, exchange_rate, randomNumber) ==
    IF Truthy(currencyCode)
    THEN IF Truthy(exchange_rate)
         THEN Ratio(ToNumber(population) * randomNumber * 2, Val(exchange_rate))
         ELSE Null
    ELSE Ratio(0, 1)

EstimatedGdp(population, currencyCode, exchange_rate, randomNumber) ==
    IF Truthy(currencyCode)
    THEN IF Truthy(exchange_rate)
         THEN Ratio(ToNumber(population) * randomNumber, Val(exchange_rate))
         ELSE Null
    ELSE Ratio(0, 1)

\* The bind parameters of the INSERT for one normalized record.
UpsertParams(country, exchangeRateData, u, time) ==
    LET currencyCode == CurrencyCode(Prop(country, "currencies"))
        exchange_rate == ExchangeRate(currencyCode, exchangeRateData)
    IN  [name |-> Prop(country, "name"),
         capital |-> Prop(country, "capital"),
         region |-> Prop(country, "region"),
         population |-> Prop(country, "population"),
         currency_code |-> currencyCode,
         exchange_rate |-> exchange_rate,
         estimated_gdp |-> EstimatedGdp(Prop(country, "population"), currencyCode,
                                        exchange_rate, RandomNumber(u)),
         flag_url |-> Prop(country, "flag"),
         last_refreshed_at |-> Num(time)]

(***************************************************************************)
(* The countries table (CREATE TABLE, database.js 97-111) and the          *)
(* INSERT ... ON DUPLICATE KEY UPDATE statement (database.js 200-214).     *)
(* The table is a sequence of rows in insertion order.  Rates are whole    *)
(* numbers in the model, which DECIMAL(10, 4) stores unchanged; string     *)
(* lengths and integer ranges of the columns are not modelled.             *)
(***************************************************************************)
\* estimated_gdp DECIMAL(20, 2): the value in hundredths, rounded half up
\* (the values of the model are never negative).
Decimal2(x) ==
    IF x.t = "ratio"
    THEN LET n == Val(x)[1]
             d == Val(x)[2]
         IN  Num((2 * 100 * n + d) \div (2 * d))
    ELSE x

\* name VARCHAR(100) NOT NULL: the statement is rejected for a null name
\* (mysql2 itself throws on an undefined bind parameter).
\* A name column that takes NULL.
UpsertAcceptsNullName(params) == FALSE

UpsertRejected(params) == IsNullish(params.name)

InsertRow(params, time) ==
    [name |-> params.name,
     capital |-> params.capital,
     region |-> params.region,
     population |-> params.population,
     currency_code |-> params.currency_code,
     exchange_rate |-> params.exchange_rate,
     estimated_gdp |-> Decimal2(params.estimated_gdp),
     flag_url |-> params.flag_url,
     last_refreshed_at |-> params.last_refreshed_at,
     created_at |-> Num(time)]

\* The update also resets created_at.
UpdateRowResetsCreatedAt(row, params, time) ==
    InsertRow(params, time)

\* The update list without capital and flag_url.
UpdateRowKeepsCapitalAndFlag(row, params, time) ==
    [row EXCEPT !.region = params.region,
                !.population = params.population,
                !.currency_code = params.currency_code,
                !.exchange_rate = params.exchange_rate,
                !.estimated_gdp = Decimal2(params.estimated_gdp),
                !.last_refreshed_at = params.last_refreshed_at]

\* The ON DUPLICATE KEY UPDATE list: every column but name and created_at.
UpdateRow(row, params, time) ==
    [row EXCEPT !.capital = params.capital,
                !.region = params.region,
                !.population = params.population,
                !.currency_code = params.currency_code,
                !.exchange_rate = params.exchange_rate,
                !.estimated_gdp = Decimal2(params.estimated_gdp),
                !.flag_url = params.flag_url,
                !.last_refreshed_at = params.last_refreshed_at]

\* A plain INSERT on a table without the UNIQUE key.
UpsertAlwaysInserts(rows, params, time) ==
    Append(rows, InsertRow(params, time))

\* A refresh that replaces the table content instead of merging into it.
UpsertReplacesTable(rows, params, time) ==
    <<InsertRow(params, time)>>

\* INSERT IGNORE: on a name that has a row, the row stays as it is.
UpsertKeepsFirst(rows, params, time) ==
    IF \E j \in 1..Len(rows) : rows[j].name = params.name
    THEN rows
    ELSE Append(rows, InsertRow(params, time))

Upsert(rows, params, time) ==
    IF \E j \in 1..Len(rows) : rows[j].name = params.name
    THEN [j \in 1..Len(rows) |->
            IF rows[j].name = params.name
            THEN UpdateRow(rows[j], params, time)
            ELSE rows[j]]
    ELSE Append(rows, InsertRow(params, time))

\* SELECT * FROM countries WHERE name = ?
RowsNamed(rows, name) == {j \in 1..Len(rows) : rows[j].name = name}

(***************************************************************************)
(* ORDER BY.  A result is given by the sequence of the row indices in      *)
(* result order.  The order among rows that the sort keys do not separate  *)
(* is not determined by the statement: every such order is a result.       *)
(***************************************************************************)
\* ORDER BY estimated_gdp DESC (database.js 238, controller.js 42): a sorts
\* below b.  MySQL sorts NULL below every value, so NULLs come last in
\* descending order.
GdpBelow(a, b) ==
    \/ a.estimated_gdp.t = "null" /\ b.estimated_gdp.t # "null"
    \/ /\ a.estimated_gdp.t # "null"
       /\ b.estimated_gdp.t # "null"
       /\ Val(a.estimated_gdp) < Val(b.estimated_gdp)

\* ORDER BY estimated_gdp IS NULL ASC, estimated_gdp DESC (database.js 72):
\* a sorts after b.
IsNullKey(row) == IF row.estimated_gdp.t = "null" THEN 1 ELSE 0
NullKeyThenGdpBelow(a, b) ==
    \/ IsNullKey(a) > IsNullKey(b)
    \/ /\ IsNullKey(a) = IsNullKey(b)
       /\ IsNullKey(a) = 0
       /\ Val(a.estimated_gdp) < Val(b.estimated_gdp)

\* The sort ascending instead of descending.
SortsAfterAscending(keys, a, b) == GdpBelow(b, a)

\* a sorts after b under the ORDER BY clause named by keys.
SortsAfter(keys, a, b) ==
    IF keys = "gdp IS NULL, gdp DESC" THEN NullKeyThenGdpBelow(a, b) ELSE GdpBelow(a, b)

\* The first k of the rows with indices in rest, in every order the clause
\* allows.
RECURSIVE SortedPrefixes(_, _, _, _)
SortedPrefixes(rows, rest, k, keys) ==
    IF k = 0 \/ rest = {}
    THEN {<<>>}
    ELSE UNION {{<<a>> \o t : t \in SortedPrefixes(rows, rest \ {a}, k - 1, keys)} :
                a \in {c \in rest : \A b \in rest : ~SortsAfter(keys, rows[c], rows[b])}}

OrderedByGdpDesc(rows) ==
    SortedPrefixes(rows, 1..Len(rows), Len(rows), "gdp DESC")

Min(a, b) == IF a < b THEN a ELSE b

\* The query without its LIMIT.
Top5ResultsNoLimit(rows) ==
    {[k \in 1..Len(p) |->
        [name |-> rows[p[k]].name, estimated_gdp |-> rows[p[k]].estimated_gdp]] :
     p \in SortedPrefixes(rows, 1..Len(rows), Len(rows), "gdp DESC")}

\* SELECT name, estimated_gdp ... ORDER BY estimated_gdp DESC LIMIT 5
\* (database.js 235-240).
Top5Results(rows) ==
    {[k \in 1..Len(p) |->
        [name |-> rows[p[k]].name, estimated_gdp |-> rows[p[k]].estimated_gdp]] :
     p \in SortedPrefixes(rows, 1..Len(rows), Min(TopLimit, Len(rows)), "gdp DESC")}

(***************************************************************************)
(* What the two external sources can answer.                               *)
(***************************************************************************)
CountryA1 ==
    Obj([name |-> Str("A"), capital |-> Str("a1"), region |-> Str("Europe"),
         population |-> Num(3), flag |-> Str("fa1"),
         currencies |-> Arr(<<Obj([code |-> Str("AAA")])>>)])
CountryA2 ==
    Obj([name |-> Str("A"), capital |-> Str("a2"), region |-> Str("Asia"),
         population |-> Num(5), flag |-> Str("fa2"),
         currencies |-> Arr(<<Obj([code |-> Str("ZZZ")]), Obj([code |-> Str("AAA")])>>)])
\* no capital, no flag, no currencies
CountryB ==
    Obj([name |-> Str("B"), region |-> Str("Asia"), population |-> Num(7)])
\* no name
CountryNoName ==
    Obj([capital |-> Str("x"), region |-> Str("Asia"), population |-> Num(2),
         flag |-> Str("fx"), currencies |-> Arr(<<Obj([code |-> Str("AAA")])>>)])

RawCountries == {CountryA1, CountryA2, CountryB, CountryNoName}

\* The lists a fetch can return: no record twice (the same name can still
\* come twice, as CountryA1 and CountryA2).
CountryLists ==
    UNION {{l \in [1..n -> RawCountries] :
              \A a, b \in 1..n : a # b => l[a] # l[b]} : n \in 0..MaxCountries}

\* One longer list: a record without a name between two good ones.
LongList == <<CountryB, CountryNoName, CountryA1>>

\* A JSON error document, as a source answers with a non-2xx status.
ErrorDocument == Obj([status |-> Num(500), message |-> Str("error")])

\* The rate table: AAA has a rate, BBB has an entry of 0, ZZZ has none.
RateTables ==
    {Obj([AAA |-> Num(10), BBB |-> Num(0)])}

\* Math.random() in units of 1 / (RandomMax - RandomMin + 1): the two ends
\* of its range.
RandomSamples == {0, RandomMax - RandomMin}

\* A fetch() either rejects (transport error) or resolves to a Response.
Threw == [kind |-> "threw", ok |-> FALSE, body |-> Undefined]
Response(ok, body) == [kind |-> "response", ok |-> ok, body |-> body]
NoResponse == [kind |-> "none", ok |-> FALSE, body |-> Undefined]

CountryFetches ==
    {Threw}
    \cup {Response(FALSE, b) : b \in {ErrorDocument, Unparsable}}
    \cup {Response(TRUE, Arr(l)) : l \in CountryLists \cup {LongList}}
    \cup {Response(TRUE, b) : b \in {ErrorDocument, Null, Unparsable}}

RateFetches ==
    {Threw}
    \cup {Response(FALSE, b) : b \in {ErrorDocument, Unparsable}}
    \cup {Response(TRUE, Obj([base_code |-> Str("USD"), rates |-> t])) : t \in RateTables}
    \cup {Response(TRUE, b) : b \in {ErrorDocument, Null, Unparsable}}


(***************************************************************************)
(* State.                                                                  *)
(***************************************************************************)
Runs == {"r1", "r2"}
\* The runs of the sequential specification: one refresh at a time.
SeqRuns == {"r1"}

VARIABLES
    store,             \* the rows of the countries table, in insertion order
    now,               \* the clock (new Date(), CURRENT_TIMESTAMP)
    artifact,          \* the content of ./cache/summary.png
    pc,                \* per run: the await the handler is suspended at
    response,          \* per run: what the country fetch came to (a Response,
                       \* or Threw when fetch rejected)
    exchangeInUSD,     \* per run: what the rate fetch came to
    countriesData,     \* per run
    exchangeRateData,  \* per run
    i,                 \* per run: the loop index
    totalCountries,    \* per run
    top5,              \* per run
    outcome,           \* per run: the response sent to the caller
    before,            \* per run: the table and the artifact when the run
                       \* started (history)
    wrote,             \* per run: the bind parameters of its upserts (history)
    statusRes,         \* the response of the last getStatus since the table
                       \* last changed or a refresh last started
    deleteRes,         \* the response of the last deleteCountry since a
                       \* refresh last started
    listRes,           \* the response of the last getCountries since the
                       \* table last changed or another request was served
    landed,            \* per name of the table: the bind parameters of the
                       \* upsert that landed last, the run that issued it
                       \* and the time of the insert (history)
    rendered           \* what the refresh that last completed with success
                       \* passed to generateSummaryImage (history)

runVars == <<pc, response, exchangeInUSD, countriesData, exchangeRateData, i,
             totalCountries, top5, outcome, before, wrote>>
vars == <<store, now, artifact, pc, response, exchangeInUSD,
          countriesData, exchangeRateData, i, totalCountries, top5, outcome,
          before, wrote, statusRes, deleteRes, listRes, landed, rendered>>

NoOutcome == [status |-> 0, body |-> ""]
NoArtifact == [state |-> "missing", total |-> 0, top |-> <<>>, timestamp |-> 0]
\* state: "none" (no request), "sent" (a response was sent), "unanswered"
\* (the handler threw outside any try and sent nothing).
NoStatus == [state |-> "none", status |-> 0, total |-> Undefined,
             total_countries |-> Undefined, last_refreshed_at |-> Undefined]
NoDelete == [state |-> "none", status |-> 0, name |-> Undefined]
NoBefore == [rows |-> <<>>, artifact |-> NoArtifact]
NoList == [state |-> "none", status |-> 0, rows |-> <<>>,
           region |-> Undefined, currency |-> Undefined, sort |-> Undefined]
NoRendered == [state |-> "none", total |-> 0, top |-> <<>>]
NoParams ==
    [name |-> Null, capital |-> Null, region |-> Null, population |-> Null,
     currency_code |-> Null, exchange_rate |-> Null, estimated_gdp |-> Null,
     flag_url |-> Null, last_refreshed_at |-> Null]
NoLanded == [n \in {} |-> [params |-> NoParams, by |-> "", inserted |-> 0,
                           inserts |-> 0, deleted |-> FALSE]]

Init ==
    /\ store = <<>>
    /\ now = 0
    /\ artifact = NoArtifact
    /\ pc = [r \in Runs |-> "idle"]
    /\ response = [r \in Runs |-> NoResponse]
    /\ exchangeInUSD = [r \in Runs |-> NoResponse]
    /\ countriesData = [r \in Runs |-> Undefined]
    /\ exchangeRateData = [r \in Runs |-> Undefined]
    /\ i = [r \in Runs |-> 0]
    /\ totalCountries = [r \in Runs |-> 0]
    /\ top5 = [r \in Runs |-> <<>>]
    /\ outcome = [r \in Runs |-> NoOutcome]
    /\ before = [r \in Runs |-> NoBefore]
    /\ wrote = [r \in Runs |-> <<>>]
    /\ statusRes = NoStatus
    /\ deleteRes = NoDelete
    /\ listRes = NoList
    /\ landed = NoLanded
    /\ rendered = NoRendered

\* res.status(s).json(b) followed by the handler's return.
Respond(r, s, b) ==
    /\ outcome' = [outcome EXCEPT ![r] = [status |-> s, body |-> b]]
    /\ pc' = [pc EXCEPT ![r] = "done"]

\* A catch that answers as if the refresh had gone through.
InternalFailureAnswersSuccess(r) == Respond(r, 201, "data refreshed")

\* The outer catch of postCountries (database.js 248-252).
InternalFailure(r) == Respond(r, 500, "Failed to fetch country data")

Goto(r, label) ==
    /\ pc' = [pc EXCEPT ![r] = label]
    /\ UNCHANGED outcome

(***************************************************************************)
(* postCountries.  A request enters the handler and awaits the CREATE      *)
(* TABLE IF NOT EXISTS statement (the same text in both files).            *)
(***************************************************************************)
postCountries_createTable(r) ==
    /\ pc[r] \in {"idle", "done"}
    /\ now < MaxClock
    /\ now' = now + 1
    /\ response' = [response EXCEPT ![r] = NoResponse]
    /\ exchangeInUSD' = [exchangeInUSD EXCEPT ![r] = NoResponse]
    /\ countriesData' = [countriesData EXCEPT ![r] = Undefined]
    /\ exchangeRateData' = [exchangeRateData EXCEPT ![r] = Undefined]
    /\ i' = [i EXCEPT ![r] = 0]
    /\ totalCountries' = [totalCountries EXCEPT ![r] = 0]
    /\ top5' = [top5 EXCEPT ![r] = <<>>]
    /\ before' = [before EXCEPT ![r] = [rows |-> store, artifact |-> artifact]]
    /\ wrote' = [wrote EXCEPT ![r] = <<>>]
    /\ statusRes' = NoStatus
    /\ listRes' = NoList
    /\ deleteRes' = NoDelete
    /\ \E dbOk \in BOOLEAN :
          IF dbOk
          THEN /\ pc' = [pc EXCEPT ![r] = "fetchCountries"]
               /\ outcome' = [outcome EXCEPT ![r] = NoOutcome]
          ELSE InternalFailure(r)
    /\ UNCHANGED <<store, landed, artifact, rendered>>

(***************************************************************************)
(* database.js 117-161: the two fetches and the parse step, each in its    *)
(* own try/catch answering 502.                                            *)
(***************************************************************************)
\* response.ok is not looked at.
FetchFailedOnlyWhenRejected(f) == f.kind = "threw"

\* The try block of a fetch throws: fetch rejected, or !response.ok.
FetchFailed(f) == f.kind = "threw" \/ (f.kind = "response" /\ ~f.ok)

postCountries_fetchCountries(r) ==
    /\ pc[r] = "fetchCountries"
    /\ \E f \in CountryFetches :
          /\ response' = [response EXCEPT ![r] = f]
          /\ IF FetchFailed(f)
             THEN Respond(r, 502, "Failed to fetch countries data from external API")
             ELSE Goto(r, "fetchRates")
    /\ UNCHANGED <<store, landed, now, artifact, rendered, exchangeInUSD,
                   countriesData,
                   exchangeRateData, i, totalCountries, top5, before, wrote,
                   statusRes, listRes, deleteRes>>

postCountries_fetchRates(r) ==
    /\ pc[r] = "fetchRates"
    /\ \E f \in RateFetches :
          /\ exchangeInUSD' = [exchangeInUSD EXCEPT ![r] = f]
          /\ IF FetchFailed(f)
             THEN Respond(r, 502, "Failed to fetch exchange rates from external API")
             ELSE Goto(r, "parse")
    /\ UNCHANGED <<store, landed, now, artifact, rendered, response,
                   countriesData,
                   exchangeRateData, i, totalCountries, top5, before, wrote,
                   statusRes, listRes, deleteRes>>

\* response.json() and (await exchangeInUSD.json()).rates: json() throws on
\* text that is not JSON, and .rates throws on a null document.
ParseThrows(countryBody, rateBody) ==
    \/ countryBody.t = "unparsable"
    \/ rateBody.t = "unparsable"
    \/ IsNullish(rateBody)

postCountries_parse(r) ==
    /\ pc[r] = "parse"
    /\ IF ParseThrows(response[r].body, exchangeInUSD[r].body)
       THEN /\ Respond(r, 502, "Invalid response from external APIs")
            /\ UNCHANGED <<countriesData, exchangeRateData>>
       ELSE /\ countriesData' = [countriesData EXCEPT ![r] = response[r].body]
            /\ exchangeRateData' =
                  [exchangeRateData EXCEPT ![r] = Prop(exchangeInUSD[r].body, "rates")]
            /\ Goto(r, "loop")
    /\ UNCHANGED <<store, landed, now, artifact, rendered, response,
                   exchangeInUSD, i,
                   totalCountries, top5, before, wrote, statusRes, listRes, deleteRes>>

(***************************************************************************)
(* controller.js 87-96: the same steps with no try/catch of their own and  *)
(* no test of response.ok; whatever throws reaches the outer catch.        *)
(***************************************************************************)
C_postCountries_fetchCountries(r) ==
    /\ pc[r] = "fetchCountries"
    /\ \E f \in CountryFetches :
          /\ response' = [response EXCEPT ![r] = f]
          /\ IF f.kind = "threw"
             THEN InternalFailure(r)
             ELSE Goto(r, "fetchRates")
    /\ UNCHANGED <<store, landed, now, artifact, rendered, exchangeInUSD,
                   countriesData,
                   exchangeRateData, i, totalCountries, top5, before, wrote,
                   statusRes, listRes, deleteRes>>

C_postCountries_fetchRates(r) ==
    /\ pc[r] = "fetchRates"
    /\ \E f \in RateFetches :
          /\ exchangeInUSD' = [exchangeInUSD EXCEPT ![r] = f]
          /\ IF f.kind = "threw"
             THEN InternalFailure(r)
             ELSE Goto(r, "parse")
    /\ UNCHANGED <<store, landed, now, artifact, rendered, response,
                   countriesData,
                   exchangeRateData, i, totalCountries, top5, before, wrote,
                   statusRes, listRes, deleteRes>>

C_postCountries_parse(r) ==
    /\ pc[r] = "parse"
    /\ IF ParseThrows(response[r].body, exchangeInUSD[r].body)
       THEN /\ InternalFailure(r)
            /\ UNCHANGED <<countriesData, exchangeRateData>>
       ELSE /\ countriesData' = [countriesData EXCEPT ![r] = response[r].body]
            /\ exchangeRateData' =
                  [exchangeRateData EXCEPT ![r] = Prop(exchangeInUSD[r].body, "rates")]
            /\ Goto(r, "loop")
    /\ UNCHANGED <<store, landed, now, artifact, rendered, response,
                   exchangeInUSD, i,
                   totalCountries, top5, before, wrote, statusRes, listRes, deleteRes>>


(***************************************************************************)
(* The per-record loop, database.js 164-228 (controller.js 99-163 is the   *)
(* same text).  One iteration runs up to its await of pool.execute.        *)
(***************************************************************************)
\* countriesData.length throws on null; an object that is no array has no
\* length, and i < undefined is false.
LengthThrows(data) == IsNullish(data)
Length(data) == IF data.t = "array" THEN Len(Val(data)) ELSE 0

\* The record the iteration works on, normalized.
Country(r) == replaceUndefined(Val(countriesData[r])[i[r] + 1], RequiredKeys)

\* The synchronous part of an iteration throws.
RecordThrows(r) ==
    \/ DestructureThrows(Country(r))
    \/ RateLookupThrows(CurrencyCode(Prop(Country(r), "currencies")),
                        exchangeRateData[r])

InLoop(r) ==
    /\ pc[r] = "loop"
    /\ ~LengthThrows(countriesData[r])
    /\ i[r] < Length(countriesData[r])

postCountries_lengthThrows(r) ==
    /\ pc[r] = "loop"
    /\ LengthThrows(countriesData[r])
    /\ InternalFailure(r)
    /\ UNCHANGED <<store, landed, now, artifact, rendered, response,
                   exchangeInUSD,
                   countriesData, exchangeRateData, i, totalCountries, top5,
                   before, wrote, statusRes, listRes, deleteRes>>

postCountries_recordThrows(r) ==
    /\ InLoop(r)
    /\ RecordThrows(r)
    /\ InternalFailure(r)
    /\ UNCHANGED <<store, landed, now, artifact, rendered, response,
                   exchangeInUSD,
                   countriesData, exchangeRateData, i, totalCountries, top5,
                   before, wrote, statusRes, listRes, deleteRes>>

\* A failed upsert whose handling removes the summary image.
postCountries_upsertFailsRemovesArtifact(r) ==
    /\ InLoop(r)
    /\ ~RecordThrows(r)
    /\ \E u \in RandomSamples, dbOk \in BOOLEAN :
          ~dbOk \/ UpsertRejected(UpsertParams(Country(r), exchangeRateData[r], u, now))
    /\ InternalFailure(r)
    /\ artifact' = NoArtifact
    /\ UNCHANGED <<store, landed, now, rendered, response,
                   exchangeInUSD,
                   countriesData, exchangeRateData, i, totalCountries, top5,
                   before, wrote, statusRes, listRes, deleteRes>>

\* pool.execute rejects: the statement is refused, or the store fails.
postCountries_upsertFails(r) ==
    /\ InLoop(r)
    /\ ~RecordThrows(r)
    /\ \E u \in RandomSamples, dbOk \in BOOLEAN :
          ~dbOk \/ UpsertRejected(UpsertParams(Country(r), exchangeRateData[r], u, now))
    /\ InternalFailure(r)
    /\ UNCHANGED <<store, landed, now, artifact, rendered, response,
                   exchangeInUSD,
                   countriesData, exchangeRateData, i, totalCountries, top5,
                   before, wrote, statusRes, listRes, deleteRes>>

\* History: the upsert of params by run r has landed.
LandUpsert(land, params, r, time) ==
    [n \in (DOMAIN land) \cup {params.name} |->
        IF n = params.name
        THEN [params |-> params, by |-> r,
              inserted |-> IF n \in DOMAIN land /\ ~land[n].deleted
                           THEN land[n].inserted ELSE time,
              inserts |-> IF n \notin DOMAIN land THEN 1
                          ELSE IF land[n].deleted THEN land[n].inserts + 1
                          ELSE land[n].inserts,
              deleted |-> FALSE]
        ELSE land[n]]

postCountries_upsert(r) ==
    /\ InLoop(r)
    /\ ~RecordThrows(r)
    /\ \E u \in RandomSamples :
          LET params == UpsertParams(Country(r), exchangeRateData[r], u, now)
          IN  /\ ~UpsertRejected(params)
              /\ store' = Upsert(store, params, now)
              /\ landed' = LandUpsert(landed, params, r, now)
              /\ wrote' = [wrote EXCEPT ![r] = Append(@, params)]
    /\ i' = [i EXCEPT ![r] = @ + 1]
    /\ statusRes' = NoStatus
    /\ listRes' = NoList
    /\ UNCHANGED <<now, artifact, rendered, pc, response, exchangeInUSD,
                   countriesData, exchangeRateData, totalCountries, top5,
                   outcome, before, deleteRes>>

(***************************************************************************)
(* database.js 230-247: the aggregate reads, the rendering, the answer.    *)
(***************************************************************************)
postCountries_readAll(r) ==
    /\ pc[r] = "loop"
    /\ ~LengthThrows(countriesData[r])
    /\ i[r] >= Length(countriesData[r])
    /\ \E dbOk \in BOOLEAN :
          IF dbOk
          THEN /\ totalCountries' = [totalCountries EXCEPT ![r] = Len(store)]
               /\ Goto(r, "top5")
          ELSE /\ InternalFailure(r)
               /\ UNCHANGED totalCountries
    /\ UNCHANGED <<store, landed, now, artifact, rendered, response,
                   exchangeInUSD,
                   countriesData, exchangeRateData, i, top5, before, wrote,
                   statusRes, listRes, deleteRes>>

postCountries_readTop5(r) ==
    /\ pc[r] = "top5"
    /\ \/ /\ \E t \in Top5Results(store) : top5' = [top5 EXCEPT ![r] = t]
          /\ Goto(r, "render")
       \/ /\ InternalFailure(r)
          /\ UNCHANGED top5
    /\ UNCHANGED <<store, landed, now, artifact, rendered, response,
                   exchangeInUSD,
                   countriesData, exchangeRateData, i, totalCountries, before,
                   wrote, statusRes, listRes, deleteRes>>

\* utils.js generateSummaryImage: what the written image shows.
generateSummaryImage(total, topCountries, timestamp) ==
    [state |-> "written",
     total |-> total,
     top |-> [k \in 1..Len(topCountries) |->
                [num |-> k,
                 name |-> topCountries[k].name,
                 estimated_gdp |-> topCountries[k].estimated_gdp]],
     timestamp |-> timestamp]

\* writeAsync writes the file in place: a failure while writing leaves a
\* partial file.  Jimp.create and loadFont fail before anything is written.
PartialArtifact == [state |-> "partial", total |-> 0, top |-> <<>>, timestamp |-> 0]

postCountries_render(r) ==
    /\ pc[r] = "render"
    /\ \/ /\ artifact' = generateSummaryImage(totalCountries[r], top5[r], now)
          /\ rendered' = [state |-> "rendered", total |-> totalCountries[r],
                          top |-> top5[r]]
          /\ Respond(r, 201, "data refreshed")
       \/ /\ artifact' \in {artifact, PartialArtifact}
          /\ UNCHANGED rendered
          /\ InternalFailure(r)
    /\ UNCHANGED <<store, landed, now, response, exchangeInUSD, countriesData,
                   exchangeRateData, i, totalCountries, top5, before, wrote,
                   statusRes, listRes, deleteRes>>

(***************************************************************************)
(* getStatus: database.js 261-277 and controller.js 196-204.               *)
(***************************************************************************)
StatusFailure ==
    [state |-> "sent", status |-> 500, total |-> Undefined,
     total_countries |-> Undefined, last_refreshed_at |-> Undefined]
StatusUnanswered ==
    [state |-> "unanswered", status |-> 0, total |-> Undefined,
     total_countries |-> Undefined, last_refreshed_at |-> Undefined]

\* A status that counts the rows one short.
StatusOfRowsOneShort(row) ==
    [state |-> "sent", status |-> 200, total |-> Undefined,
     total_countries |-> Num(Len(row) - 1), last_refreshed_at |-> Null]

\* database.js 265-272: the answer for the rows the query returned.
StatusOfRows(row) ==
    IF Len(row) = 0
    THEN [state |-> "sent", status |-> 200, total |-> Num(0),
          total_countries |-> Undefined, last_refreshed_at |-> Null]
    ELSE [state |-> "sent", status |-> 200, total |-> Undefined,
          total_countries |-> Num(Len(row)),
          last_refreshed_at |-> row[1].last_refreshed_at]

getStatus ==
    /\ \E dbOk \in BOOLEAN :
          statusRes' = IF dbOk THEN StatusOfRows(store) ELSE StatusFailure
    /\ listRes' = NoList
    /\ deleteRes' = NoDelete
    /\ UNCHANGED <<store, landed, now, artifact, rendered, runVars>>

\* No try/catch: a rejected query, or row[0] of an empty result, ends the
\* handler without a response.
C_getStatus ==
    /\ \E dbOk \in BOOLEAN :
          statusRes' =
             IF ~dbOk \/ Len(store) = 0 THEN StatusUnanswered
             ELSE [state |-> "sent", status |-> 200, total |-> Num(Len(store)),
                   total_countries |-> Undefined,
                   last_refreshed_at |-> store[1].last_refreshed_at]
    /\ listRes' = NoList
    /\ deleteRes' = NoDelete
    /\ UNCHANGED <<store, landed, now, artifact, rendered, runVars>>

(***************************************************************************)
(* deleteCountry: database.js 313-333 and controller.js 231-240.  The      *)
(* history of a finished refresh describes the table as that refresh left  *)
(* it; a request that changes the table afterwards ends that history.      *)
(***************************************************************************)
ForgetRuns ==
    /\ pc' = [r \in Runs |-> "idle"]
    /\ response' = [r \in Runs |-> NoResponse]
    /\ exchangeInUSD' = [r \in Runs |-> NoResponse]
    /\ countriesData' = [r \in Runs |-> Undefined]
    /\ exchangeRateData' = [r \in Runs |-> Undefined]
    /\ i' = [r \in Runs |-> 0]
    /\ totalCountries' = [r \in Runs |-> 0]
    /\ top5' = [r \in Runs |-> <<>>]
    /\ outcome' = [r \in Runs |-> NoOutcome]
    /\ before' = [r \in Runs |-> NoBefore]
    /\ wrote' = [r \in Runs |-> <<>>]

\* A delete that removes nothing.
DeleteRowsKeepsAll(rows, name) == rows

\* DELETE FROM countries WHERE name = ?
DeleteRows(rows, name) == SelectSeq(rows, LAMBDA row : row.name # name)

\* History: the row of the name is gone; the time of its insert is kept.
LandDelete(land, name) ==
    [n \in DOMAIN land |->
        IF n = name
        THEN [params |-> NoParams, by |-> "", inserted |-> land[n].inserted,
              inserts |-> land[n].inserts, deleted |-> TRUE]
        ELSE land[n]]

DeleteNames == {Str("A"), Str("B"), Str("C")}

deleteCountry(name) ==
    /\ \E dbOk \in BOOLEAN :
          IF ~dbOk
          THEN /\ deleteRes' = [state |-> "sent", status |-> 500, name |-> name]
               /\ UNCHANGED <<store, landed, runVars>>
          ELSE /\ store' = DeleteRows(store, name)
               /\ landed' = LandDelete(landed, name)
               /\ ForgetRuns
               /\ deleteRes' =
                     [state |-> "sent",
                      status |-> IF RowsNamed(store, name) = {} THEN 404 ELSE 200,
                      name |-> name]
    /\ statusRes' = NoStatus
    /\ listRes' = NoList
    /\ UNCHANGED <<now, artifact, rendered>>

\* controller.js 231-240: affectedRows is not looked at.
C_deleteCountry(name) ==
    /\ \E dbOk \in BOOLEAN :
          IF ~dbOk
          THEN /\ deleteRes' = [state |-> "sent", status |-> 500, name |-> name]
               /\ UNCHANGED <<store, landed, runVars>>
          ELSE /\ store' = DeleteRows(store, name)
               /\ landed' = LandDelete(landed, name)
               /\ ForgetRuns
               /\ deleteRes' = [state |-> "sent", status |-> 200, name |-> name]
    /\ statusRes' = NoStatus
    /\ listRes' = NoList
    /\ UNCHANGED <<now, artifact, rendered>>

(***************************************************************************)
(* getCountries: database.js 36-85 and controller.js 13-55.  Without an    *)
(* ORDER BY the rows come in table order.                                  *)
(***************************************************************************)
\* req.query: an absent parameter is undefined, ?region= is the empty string.
Regions == {Undefined, Str(""), Str("Europe")}
Currencies == {Undefined, Str("AAA")}
Sorts == {Undefined, Str("gdp_desc"), Str("name")}

\* The conditions joined with OR instead of AND.
FilteredEither(rows, region, currency) ==
    SelectSeq(rows, LAMBDA row :
        \/ ~Truthy(region) /\ ~Truthy(currency)
        \/ Truthy(region) /\ row.region = region
        \/ Truthy(currency) /\ row.currency_code = currency)

\* The WHERE clause: a condition is pushed for a truthy parameter only.
Filtered(rows, region, currency) ==
    SelectSeq(rows, LAMBDA row :
        /\ Truthy(region) => row.region = region
        /\ Truthy(currency) => row.currency_code = currency)

\* The results the query can give for the ORDER BY clause keys ("" for none).
QueryResults(rows, region, currency, keys) ==
    LET f == Filtered(rows, region, currency)
    IN  IF keys = ""
        THEN {f}
        ELSE {[k \in 1..Len(f) |-> f[p[k]]] :
              p \in SortedPrefixes(f, 1..Len(f), Len(f), keys)}

ListAnswer(status, rows, region, currency, sort) ==
    [state |-> "sent", status |-> status, rows |-> rows,
     region |-> region, currency |-> currency, sort |-> sort]

getCountries(region, currency, sort) ==
    /\ IF Truthy(sort) /\ sort # Str("gdp_desc")
       THEN listRes' = ListAnswer(400, <<>>, region, currency, sort)
       ELSE \E dbOk \in BOOLEAN :
               IF dbOk
               THEN \E rows \in QueryResults(store, region, currency,
                                             IF sort = Str("gdp_desc")
                                             THEN "gdp IS NULL, gdp DESC" ELSE "") :
                       listRes' = ListAnswer(200, rows, region, currency, sort)
               ELSE listRes' = ListAnswer(500, <<>>, region, currency, sort)
    /\ statusRes' = NoStatus
    /\ deleteRes' = NoDelete
    /\ UNCHANGED <<store, landed, now, artifact, rendered, runVars>>

\* controller.js 13-55: no validation of sort; any other value is ignored.
C_getCountries(region, currency, sort) ==
    /\ \E dbOk \in BOOLEAN :
          IF dbOk
          THEN \E rows \in QueryResults(store, region, currency,
                                        IF sort = Str("gdp_desc")
                                        THEN "gdp DESC" ELSE "") :
                  listRes' = ListAnswer(200, rows, region, currency, sort)
          ELSE listRes' = ListAnswer(500, <<>>, region, currency, sort)
    /\ statusRes' = NoStatus
    /\ deleteRes' = NoDelete
    /\ UNCHANGED <<store, landed, now, artifact, rendered, runVars>>

(***************************************************************************)
(* Specification: requests are served one at a time.                       *)
(***************************************************************************)
Quiet == \A r \in Runs : pc[r] \in {"idle", "done"}

\* The steps the two texts share.
RefreshCommon(r) ==
    \/ postCountries_createTable(r)
    \/ postCountries_lengthThrows(r)
    \/ postCountries_recordThrows(r)
    \/ postCountries_upsertFails(r)
    \/ postCountries_upsert(r)
    \/ postCountries_readAll(r)
    \/ postCountries_readTop5(r)
    \/ postCountries_render(r)

\* The server running the handlers of database.js.
Next ==
    \/ \E r \in SeqRuns :
          \/ RefreshCommon(r)
          \/ postCountries_fetchCountries(r)
          \/ postCountries_fetchRates(r)
          \/ postCountries_parse(r)
    \/ Quiet /\ getStatus
    \/ Quiet /\ \E name \in DeleteNames : deleteCountry(name)

Spec == Init /\ [][Next]_vars

\* The server running the handlers of controller.js.
C_Next ==
    \/ \E r \in SeqRuns :
          \/ RefreshCommon(r)
          \/ C_postCountries_fetchCountries(r)
          \/ C_postCountries_fetchRates(r)
          \/ C_postCountries_parse(r)
    \/ Quiet /\ C_getStatus
    \/ Quiet /\ \E name \in DeleteNames : C_deleteCountry(name)

C_Spec == Init /\ [][C_Next]_vars

(***************************************************************************)
(* Two refresh requests served at once (database.js): while one handler    *)
(* is suspended at an await, the other one runs.                           *)
(***************************************************************************)
Conc_Next ==
    \E r \in Runs :
        \/ RefreshCommon(r)
        \/ postCountries_fetchCountries(r)
        \/ postCountries_fetchRates(r)
        \/ postCountries_parse(r)

Conc_Spec == Init /\ [][Conc_Next]_vars

(***************************************************************************)
(* The listing queries over a table that earlier refreshes have filled.    *)
(* The table outlives the server process, so a server can start with       *)
(* rows: SeedStore is the table after a refresh of SeedCountries at time   *)
(* 0.  List_Spec serves refreshes (database.js) and the listing queries    *)
(* of both texts.                                                          *)
(***************************************************************************)
SeedCountry(name, region, population, code) ==
    Obj([name |-> Str(name), capital |-> Str("c"), region |-> Str(region),
         population |-> Num(population), flag |-> Str("f"),
         currencies |-> IF code = "" THEN Arr(<<>>)
                        ELSE Arr(<<Obj([code |-> Str(code)])>>)])

\* C and D tie, E has no currency (0), F has no rate (null), H is the
\* largest.
SeedCountries ==
    <<SeedCountry("C", "Europe", 2, "AAA"), SeedCountry("D", "Asia", 2, "AAA"),
      SeedCountry("E", "Asia", 4, ""), SeedCountry("F", "Europe", 6, "ZZZ"),
      SeedCountry("G", "Asia", 1, "AAA"), SeedCountry("H", "Europe", 9, "AAA")>>

\* The 2xx country bodies of the refreshes between the queries: three lists
\* and a JSON null.
ListBodies == {Null, Arr(<<>>), Arr(<<CountryA2>>), Arr(<<CountryA1, CountryB>>)}

SeedParams(k) ==
    UpsertParams(replaceUndefined(SeedCountries[k], RequiredKeys),
                 CHOOSE t \in RateTables : TRUE, 0, 0)

RECURSIVE SeedStoreUpTo(_)
SeedStoreUpTo(k) ==
    IF k = 0 THEN <<>> ELSE Upsert(SeedStoreUpTo(k - 1), SeedParams(k), 0)

SeedStore == SeedStoreUpTo(Len(SeedCountries))

SeedLanded ==
    [n \in {SeedParams(k).name : k \in 1..Len(SeedCountries)} |->
        [params |-> SeedParams(CHOOSE k \in 1..Len(SeedCountries) :
                                  SeedParams(k).name = n),
         by |-> "", inserted |-> 0, inserts |-> 1, deleted |-> FALSE]]

List_Init ==
    /\ store = SeedStore
    /\ landed = SeedLanded
    /\ now = 0
    /\ artifact = NoArtifact
    /\ pc = [r \in Runs |-> "idle"]
    /\ response = [r \in Runs |-> NoResponse]
    /\ exchangeInUSD = [r \in Runs |-> NoResponse]
    /\ countriesData = [r \in Runs |-> Undefined]
    /\ exchangeRateData = [r \in Runs |-> Undefined]
    /\ i = [r \in Runs |-> 0]
    /\ totalCountries = [r \in Runs |-> 0]
    /\ top5 = [r \in Runs |-> <<>>]
    /\ outcome = [r \in Runs |-> NoOutcome]
    /\ before = [r \in Runs |-> NoBefore]
    /\ wrote = [r \in Runs |-> <<>>]
    /\ statusRes = NoStatus
    /\ deleteRes = NoDelete
    /\ listRes = NoList
    /\ rendered = NoRendered

\* Both sources answer 2xx, and one listing query is served between two
\* refreshes (a query changes nothing a second query could see).
List_Next ==
    \/ \E r \in SeqRuns :
          \/ RefreshCommon(r)
          \/ postCountries_fetchCountries(r)
                /\ response'[r].ok
                /\ response'[r].body \in ListBodies
          \/ postCountries_fetchRates(r) /\ exchangeInUSD'[r].ok
          \/ postCountries_parse(r)
    \/ /\ Quiet
       /\ listRes = NoList
       /\ \E region \in Regions, currency \in Currencies, sort \in Sorts :
             getCountries(region, currency, sort)
    \/ /\ Quiet
       /\ listRes = NoList
       /\ \E region \in Regions, currency \in Currencies, sort \in Sorts :
             C_getCountries(region, currency, sort)

List_Spec == List_Init /\ [][List_Next]_vars


(***************************************************************************)
(* Vocabulary of the properties.                                           *)
(***************************************************************************)
NamesOf(rows) == {rows[j].name : j \in 1..Len(rows)}
RowNamed(rows, name) == rows[CHOOSE j \in RowsNamed(rows, name) : TRUE]

\* The names the fetched list mentions (none when no list was fetched).
FetchNames(r) ==
    IF countriesData[r].t = "array"
    THEN {Prop(Val(countriesData[r])[k], "name") : k \in 1..Len(Val(countriesData[r]))}
    ELSE {}

\* The last upsert of the run on the name of its k-th upsert.
LastWrite(r, k) ==
    LET same == {m \in 1..Len(wrote[r]) : wrote[r][m].name = wrote[r][k].name}
    IN  wrote[r][CHOOSE m \in same : \A n \in same : n <= m]
FirstWrite(r, k) ==
    LET same == {m \in 1..Len(wrote[r]) : wrote[r][m].name = wrote[r][k].name}
    IN  wrote[r][CHOOSE m \in same : \A n \in same : m <= n]

\* The row carries the values of the bind parameters in its mutable columns.
CarriesValues(row, params) ==
    /\ row.capital = params.capital
    /\ row.region = params.region
    /\ row.population = params.population
    /\ row.currency_code = params.currency_code
    /\ row.exchange_rate = params.exchange_rate
    /\ row.estimated_gdp = Decimal2(params.estimated_gdp)
    /\ row.flag_url = params.flag_url
    /\ row.last_refreshed_at = params.last_refreshed_at

UpstreamFetchOutcome(o) ==
    /\ o.status = 502
    /\ o.body \in {"Failed to fetch countries data from external API",
                   "Failed to fetch exchange rates from external API"}
InternalFailureOutcome(o) ==
    o = [status |-> 500, body |-> "Failed to fetch country data"]
SuccessOutcome(o) == o = [status |-> 201, body |-> "data refreshed"]

(***************************************************************************)
(* C1.  A refresh whose country fetch or rate fetch fails (transport       *)
(* error or non-2xx answer) writes no row, ends without entering the       *)
(* per-record loop, and answers with the upstream-fetch failure, which is  *)
(* not the internal-failure answer.  Holds of the handlers of database.js  *)
(* (Spec); the handlers of controller.js (C_Spec) break it.                *)
(***************************************************************************)
C1_FetchFailureAborts ==
    \A r \in Runs :
        (/\ pc[r] = "done"
         /\ FetchFailed(response[r]) \/ FetchFailed(exchangeInUSD[r]))
        => /\ UpstreamFetchOutcome(outcome[r])
           /\ ~InternalFailureOutcome(outcome[r])
           /\ countriesData[r] = Undefined
           /\ i[r] = 0
           /\ wrote[r] = <<>>
           /\ store = before[r].rows

(***************************************************************************)
(* C5.  A refresh whose sources both answer 2xx but with a body of the     *)
(* wrong shape (the country body is no list, or the rate body has no       *)
(* rates map) is aborted as an upstream parse failure and writes no row.   *)
(***************************************************************************)
HasRatesMap(body) ==
    /\ body.t = "object"
    /\ "rates" \in DOMAIN Val(body)
    /\ Val(body).rates.t = "object"

Malformed(r) ==
    /\ response[r].kind = "response" /\ response[r].ok
    /\ exchangeInUSD[r].kind = "response" /\ exchangeInUSD[r].ok
    /\ response[r].body.t # "array" \/ ~HasRatesMap(exchangeInUSD[r].body)

C5_MalformedBodyAborts ==
    \A r \in Runs :
        (pc[r] = "done" /\ Malformed(r))
        => /\ outcome[r] = [status |-> 502, body |-> "Invalid response from external APIs"]
           /\ wrote[r] = <<>>
           /\ store = before[r].rows


(***************************************************************************)
(* C2.  The table never holds two rows of one name, and every name a       *)
(* refresh upserted (with no deletion since) is found by a lookup exactly  *)
(* once: within a run that lists a name twice and across runs.             *)
(***************************************************************************)
C2_OneRowPerName ==
    /\ \A j, k \in 1..Len(store) : j # k => store[j].name # store[k].name
    /\ \A r \in Runs : \A k \in 1..Len(wrote[r]) :
          Cardinality(RowsNamed(store, wrote[r][k].name)) = 1

\* A run upserted one name twice, on top of a row an earlier run left.
C2_Witness ==
    \E r \in Runs :
        /\ Len(wrote[r]) = 2
        /\ wrote[r][1].name = wrote[r][2].name
        /\ wrote[r][1].name \in NamesOf(before[r].rows)
        /\ Cardinality(RowsNamed(store, wrote[r][1].name)) = 1

(***************************************************************************)
(* C3.  After an upsert on a name that already had a row, the row carries  *)
(* the new record's value in every mutable column, and created_at is the   *)
(* value the row got when it was inserted: the one it had before the run,  *)
(* or the time of the run's first upsert of the name when the run          *)
(* inserted it.                                                            *)
(***************************************************************************)
C3_ConflictOverwritesAllButCreatedAt ==
    \A r \in Runs : \A k \in 1..Len(wrote[r]) :
        LET name == wrote[r][k].name
            row == RowNamed(store, name)
        IN  /\ RowsNamed(store, name) # {}
            /\ row.name = name
            /\ CarriesValues(row, LastWrite(r, k))
            /\ row.created_at =
                  IF name \in NamesOf(before[r].rows)
                  THEN RowNamed(before[r].rows, name).created_at
                  ELSE FirstWrite(r, k).last_refreshed_at

\* A later refresh updated a row: every mutable column changed, created_at
\* is older than last_refreshed_at.
C3_Witness ==
    \E r \in Runs : \E k \in 1..Len(wrote[r]) :
        LET name == wrote[r][k].name
        IN  /\ name \in NamesOf(before[r].rows)
            /\ LET old == RowNamed(before[r].rows, name)
                   row == RowNamed(store, name)
               IN  /\ row.capital # old.capital
                   /\ row.region # old.region
                   /\ row.population # old.population
                   /\ row.currency_code # old.currency_code
                   /\ row.exchange_rate # old.exchange_rate
                   /\ row.estimated_gdp # old.estimated_gdp
                   /\ row.flag_url # old.flag_url
                   /\ row.last_refreshed_at # old.last_refreshed_at
                   /\ row.created_at = old.created_at
                   /\ row.created_at # row.last_refreshed_at

(***************************************************************************)
(* C4.  A refresh removes no row, and a row whose name the current fetch   *)
(* does not mention is left as it was, whether the run succeeds or fails.  *)
(***************************************************************************)
C4_RefreshKeepsOtherRows ==
    \A r \in Runs :
        pc[r] # "idle" =>
            \A j \in 1..Len(before[r].rows) :
                LET old == before[r].rows[j]
                IN  /\ old.name \in NamesOf(store)
                    /\ old.name \notin FetchNames(r)
                          => \E k \in 1..Len(store) : store[k] = old

\* A successful run wrote a row while an older row, absent from its fetch,
\* stayed in the table.
C4_Witness ==
    \E r \in Runs :
        /\ pc[r] = "done"
        /\ SuccessOutcome(outcome[r])
        /\ wrote[r] # <<>>
        /\ \E j \in 1..Len(before[r].rows) :
              /\ before[r].rows[j].name \notin FetchNames(r)
              /\ \E k \in 1..Len(store) : store[k] = before[r].rows[j]


(***************************************************************************)
(* C6.  Every row of the table with a null currency_code has              *)
(* estimated_gdp 0 and a null exchange_rate; every upsert of a record      *)
(* whose currency code has no entry in the rate table of its run binds a   *)
(* null estimated_gdp and a null exchange_rate, and no row has a currency  *)
(* code, a null rate and a non-null estimated_gdp.  Currency codes are     *)
(* non-empty strings (section 3 of the specification: 3-letter codes).     *)
(***************************************************************************)
HasEntry(table, code) ==
    table.t = "object" /\ Val(code) \in DOMAIN Val(table)

C6_GdpAndRateNullness ==
    /\ \A j \in 1..Len(store) :
          /\ store[j].currency_code = Null
                => store[j].estimated_gdp = Num(0) /\ store[j].exchange_rate = Null
          /\ store[j].currency_code # Null /\ store[j].exchange_rate = Null
                => store[j].estimated_gdp = Null
    /\ \A r \in Runs : \A k \in 1..Len(wrote[r]) :
          LET p == wrote[r][k]
          IN  /\ p.currency_code = Null
                    => p.estimated_gdp = Ratio(0, 1) /\ p.exchange_rate = Null
              /\ (p.currency_code # Null /\ ~HasEntry(exchangeRateData[r], p.currency_code))
                    => p.estimated_gdp = Null /\ p.exchange_rate = Null

\* The table holds a row without a currency code next to a row whose code
\* the rate table of the run did not know.
C6_Witness ==
    \E r \in Runs : \E k \in 1..Len(wrote[r]) :
        /\ wrote[r][k].currency_code # Null
        /\ ~HasEntry(exchangeRateData[r], wrote[r][k].currency_code)
        /\ RowNamed(store, wrote[r][k].name).estimated_gdp = Null
        /\ \E j \in 1..Len(store) :
              store[j].currency_code = Null /\ store[j].estimated_gdp = Num(0)

(***************************************************************************)
(* C7.  The estimate a refresh computes for a record is 0 without a        *)
(* currency code, null with a code and no rate, and with a population > 0  *)
(* and a rate > 0 it is population * (s / rate) for an integer s in        *)
(* 1000..2000: positive, and between population * 1000 / rate and          *)
(* population * 2000 / rate.  (Exact arithmetic; the rounding of a double  *)
(* is not modelled.)                                                       *)
(***************************************************************************)
C7_EstimateRange ==
    \A r \in Runs : \A k \in 1..Len(wrote[r]) :
        LET p == wrote[r][k]
        IN  /\ p.currency_code = Null => p.estimated_gdp = Ratio(0, 1)
            /\ p.currency_code # Null /\ p.exchange_rate = Null
                  => p.estimated_gdp = Null
            /\ (/\ p.currency_code # Null
                /\ p.exchange_rate.t = "number"
                /\ Val(p.exchange_rate) > 0
                /\ p.population.t = "number"
                /\ Val(p.population) > 0)
                  => /\ p.estimated_gdp.t = "ratio"
                     /\ Val(p.estimated_gdp)[2] = Val(p.exchange_rate)
                     /\ \E sc \in 1000..2000 :
                           Val(p.estimated_gdp)[1] = Val(p.population) * sc
                     /\ Val(p.estimated_gdp)[1] >= Val(p.population) * 1000
                     /\ Val(p.estimated_gdp)[1] <= Val(p.population) * 2000
                     /\ Val(p.estimated_gdp)[1] > 0

\* A run estimated a record at the upper end of the range and another
\* record, without a currency, at 0.
C7_Witness ==
    \E r \in Runs : \E k, m \in 1..Len(wrote[r]) :
        /\ wrote[r][k].exchange_rate.t = "number"
        /\ wrote[r][k].population.t = "number"
        /\ wrote[r][k].estimated_gdp =
              Ratio(Val(wrote[r][k].population) * 2000, Val(wrote[r][k].exchange_rate))
        /\ wrote[r][m].currency_code = Null
        /\ wrote[r][m].estimated_gdp = Ratio(0, 1)

(***************************************************************************)
(* C8.  replaceUndefined with the six required keys turns every record     *)
(* (a JSON object) into an object in which each required key is present    *)
(* and not undefined, null where the record lacked it, with no undefined   *)
(* left at any depth and the other values kept; the destructuring of the   *)
(* result in the loop does not throw.                                      *)
(***************************************************************************)
RECURSIVE HasUndefined(_)
HasUndefined(x) ==
    CASE x.t = "undefined" -> TRUE
      [] x.t = "array" -> \E j \in 1..Len(Val(x)) : HasUndefined(Val(x)[j])
      [] x.t = "object" -> \E key \in DOMAIN Val(x) : HasUndefined(Val(x)[key])
      [] OTHER -> FALSE

\* Objects with undefined leaves, as only JavaScript callers can build them.
UndefinedLeaves ==
    {Obj([name |-> Undefined, population |-> Num(1)]),
     Obj([name |-> Str("A"),
          currencies |-> Arr(<<Undefined, Obj([code |-> Undefined]),
                               Arr(<<Undefined, Str("x")>>)>>),
          other |-> Obj([inner |-> Undefined])])}

Normalized(raw, c) ==
    /\ c.t = "object"
    /\ ~HasUndefined(c)
    /\ ~DestructureThrows(c)
    /\ DOMAIN Val(c) = (DOMAIN Val(raw)) \cup RequiredKeys
    /\ \A key \in RequiredKeys :
          /\ key \in DOMAIN Val(c)
          /\ Val(c)[key].t # "undefined"
          /\ key \notin DOMAIN Val(raw) => Val(c)[key] = Null
    /\ \A key \in DOMAIN Val(raw) :
          ~HasUndefined(Val(raw)[key]) => Val(c)[key] = Val(raw)[key]

C8_NormalizationTotal ==
    /\ \A raw \in UndefinedLeaves :
          Normalized(raw, replaceUndefined(raw, RequiredKeys))
    /\ \A r \in Runs :
          InLoop(r) => Normalized(Val(countriesData[r])[i[r] + 1], Country(r))

\* The loop is at a record that lacks required keys; they read as null.
C8_Witness ==
    \E r \in Runs :
        /\ InLoop(r)
        /\ {"capital", "flag", "currencies"}
              \cap DOMAIN Val(Val(countriesData[r])[i[r] + 1]) = {}
        /\ Prop(Country(r), "capital") = Null
        /\ Prop(Country(r), "currencies") = Null

(***************************************************************************)
(* C9.  When the upsert of the k-th record of a run fails, the rows of     *)
(* records 1..k-1 stay in the table with the values the run wrote, the     *)
(* records from k on are not upserted, the run renders no artifact, and    *)
(* the caller gets the internal-failure answer.                            *)
(***************************************************************************)
\* The run ended inside the loop at a record whose synchronous part did not
\* throw: its pool.execute rejected.
UpsertFailedAt(r) ==
    /\ pc[r] = "done"
    /\ countriesData[r].t = "array"
    /\ i[r] < Len(Val(countriesData[r]))
    /\ ~RecordThrows(r)

C9_UpsertFailureKeepsEarlierRows ==
    \A r \in Runs :
        UpsertFailedAt(r)
        => /\ InternalFailureOutcome(outcome[r])
           /\ Len(wrote[r]) = i[r]
           /\ \A k \in 1..Len(wrote[r]) :
                 /\ RowsNamed(store, wrote[r][k].name) # {}
                 /\ CarriesValues(RowNamed(store, wrote[r][k].name), LastWrite(r, k))
           /\ \A j \in 1..Len(store) :
                 (\A k \in 1..Len(wrote[r]) : wrote[r][k].name # store[j].name)
                    => \E m \in 1..Len(before[r].rows) : before[r].rows[m] = store[j]
           /\ artifact = before[r].artifact
           /\ totalCountries[r] = 0
           /\ top5[r] = <<>>

\* The second of three records failed: the first is committed, the third
\* has no row.
C9_Witness ==
    \E r \in Runs :
        /\ UpsertFailedAt(r)
        /\ i[r] = 1
        /\ Len(Val(countriesData[r])) = 3
        /\ wrote[r][1].name \in NamesOf(store)
        /\ Prop(Val(countriesData[r])[3], "name") \notin NamesOf(store)

(***************************************************************************)
(* C10.  After a refresh that reported success, a status read that is      *)
(* answered with success reports the number of rows in the table (as       *)
(* total_countries, or as total = 0 for an empty table): the rows the      *)
(* table had before the run plus the new names of the run, each name       *)
(* once.  C10_StatusCountsProcessed is the claim as first stated: the      *)
(* count is the number of records the run processed.                       *)
(***************************************************************************)
StatusCount(res) ==
    IF res.total.t # "undefined" THEN res.total ELSE res.total_countries

StatusAfterSuccess(r) ==
    /\ pc[r] = "done"
    /\ SuccessOutcome(outcome[r])
    /\ statusRes.state = "sent"
    /\ statusRes.status = 200

C11_ArtifactReflectsLatestSuccess ==
    rendered.state = "rendered"
    => /\ artifact.state = "written"
       /\ artifact.total = rendered.total
       /\ Len(artifact.top) = Len(rendered.top)
       /\ \A k \in 1..Len(rendered.top) :
             /\ artifact.top[k].name = rendered.top[k].name
             /\ artifact.top[k].estimated_gdp = rendered.top[k].estimated_gdp

(***************************************************************************)
(* C12.  A listing query with sort=gdp_desc that is answered with success  *)
(* returns the rows with a non-null estimated_gdp before the rows with a   *)
(* null one, and the non-null rows in non-increasing order of              *)
(* estimated_gdp (both texts of getCountries); the top-5 list of a         *)
(* refresh is in the same order, and no row left out of it sorts above a   *)
(* row in it.                                                              *)
(***************************************************************************)
\* rows[a] may stand before rows[b] in a GDP-descending, nulls-last order.
MayPrecede(x, y) ==
    /\ x.estimated_gdp.t = "null" => y.estimated_gdp.t = "null"
    /\ (x.estimated_gdp.t # "null" /\ y.estimated_gdp.t # "null")
          => Val(x.estimated_gdp) >= Val(y.estimated_gdp)

GdpDescNullsLast(rows) ==
    \A a, b \in 1..Len(rows) : a < b => MayPrecede(rows[a], rows[b])

SortedListing ==
    /\ listRes.state = "sent"
    /\ listRes.status = 200
    /\ listRes.sort = Str("gdp_desc")

\* The run has read its top-5 list and the table is as it was at the read.
HasTop5(r) == pc[r] \in {"render", "done"} /\ top5[r] # <<>>

C12_GdpDescNullsLast ==
    /\ SortedListing => GdpDescNullsLast(listRes.rows)
    /\ \A r \in Runs :
          HasTop5(r)
          => /\ GdpDescNullsLast(top5[r])
             /\ \A j \in 1..Len(store) :
                   (\A k \in 1..Len(top5[r]) : top5[r][k].name # store[j].name)
                      => MayPrecede(top5[r][Len(top5[r])], store[j])

\* A sorted listing of more than five rows, in another order than the
\* table's, with rows of different estimates and a row without one, served
\* after a refresh that picked five rows out of more.
C12_Witness ==
    /\ SortedListing
    /\ Len(listRes.rows) > TopLimit
    /\ listRes.rows # Filtered(store, listRes.region, listRes.currency)
    /\ \E a, b, c \in 1..Len(listRes.rows) :
          /\ a < b /\ b < c
          /\ listRes.rows[a].estimated_gdp.t = "number"
          /\ listRes.rows[b].estimated_gdp.t = "number"
          /\ Val(listRes.rows[a].estimated_gdp) > Val(listRes.rows[b].estimated_gdp)
          /\ listRes.rows[c].estimated_gdp = Null
    /\ \E r \in Runs :
          HasTop5(r) /\ Len(top5[r]) = TopLimit /\ Len(store) > TopLimit

(***************************************************************************)
(* C13.  A listing query that is answered with success returns exactly     *)
(* the rows of the table whose region is the given region and whose        *)
(* currency_code is the given currency, each condition applying only when  *)
(* its parameter is given (present and not empty): every returned row is   *)
(* such a row of the table, and every such row is returned once.  Serving  *)
(* the query leaves the table unchanged.                                   *)
(***************************************************************************)
Given(param) == param.t = "string" /\ Val(param) # ""

Matches(row, region, currency) ==
    /\ Given(region) => row.region = region
    /\ Given(currency) => row.currency_code = currency

ListingAnswered == listRes.state = "sent" /\ listRes.status = 200

ExactlyTheMatchingRows ==
    ListingAnswered
    => /\ \A k \in 1..Len(listRes.rows) :
             /\ Matches(listRes.rows[k], listRes.region, listRes.currency)
             /\ \E j \in 1..Len(store) : store[j] = listRes.rows[k]
       /\ \A j \in 1..Len(store) :
             Matches(store[j], listRes.region, listRes.currency)
                => Cardinality({k \in 1..Len(listRes.rows) :
                                   listRes.rows[k] = store[j]}) = 1

C13_FilterReturnsExactlyMatching ==
    /\ []ExactlyTheMatchingRows
    /\ [][listRes'.state = "sent" => store' = store /\ landed' = landed]_vars

\* A query for one region and one currency returned some rows and left
\* out a row of the region with another currency, a row of the currency in
\* another region, and a row without a currency.
C13_Witness ==
    /\ ListingAnswered
    /\ Given(listRes.region)
    /\ Given(listRes.currency)
    /\ Len(listRes.rows) >= 2
    /\ \E a, b, c \in 1..Len(store) :
          /\ store[a].region = listRes.region
          /\ store[a].currency_code \notin {listRes.currency, Null}
          /\ store[b].region # listRes.region
          /\ store[b].currency_code = listRes.currency
          /\ store[c].currency_code = Null
          /\ \A k \in 1..Len(listRes.rows) : listRes.rows[k] \notin {store[a], store[b], store[c]}

(***************************************************************************)
(* C14.  A refresh answers its caller once, when it ends, with one of the  *)
(* three outcomes (success, upstream failure, internal failure), and it    *)
(* answers success only when nothing failed: both sources answered 2xx     *)
(* with a body of the right shape, every record of the list was upserted,  *)
(* and the summary was read and written.                                   *)
(***************************************************************************)
UpstreamOutcome(o) == o.status = 502

NothingFailed(r) ==
    /\ response[r].kind = "response" /\ response[r].ok
    /\ exchangeInUSD[r].kind = "response" /\ exchangeInUSD[r].ok
    /\ ~ParseThrows(response[r].body, exchangeInUSD[r].body)
    /\ ~Malformed(r)
    /\ i[r] = Len(Val(countriesData[r]))
    /\ Len(wrote[r]) = Len(Val(countriesData[r]))
    /\ artifact.state = "written"

C14_OneOutcomeNothingSwallowed ==
    \A r \in Runs :
        /\ pc[r] \notin {"idle", "done"} => outcome[r] = NoOutcome
        /\ pc[r] = "done"
              => /\ \/ SuccessOutcome(outcome[r])
                    \/ UpstreamOutcome(outcome[r])
                    \/ InternalFailureOutcome(outcome[r])
                 /\ SuccessOutcome(outcome[r]) => NothingFailed(r)

(***************************************************************************)
(* C15.  The steps of one refresh run come in the order FETCH_COUNTRIES,   *)
(* FETCH_RATES, (parse,) PROCESS_EACH, READ_AGGREGATES, RENDER_SUMMARY,    *)
(* DONE: the run moves from a step to the next one or to its end; a row    *)
(* is upserted only in PROCESS_EACH, after both fetches have succeeded;    *)
(* the aggregate read starts only when every record of the list has been   *)
(* upserted; the artifact is written only by a run in RENDER_SUMMARY,      *)
(* which comes after the reads; and success is answered only in the step   *)
(* that has written the artifact.                                          *)
(***************************************************************************)
Rank(label) ==
    CASE label = "idle" -> 0
      [] label = "fetchCountries" -> 1
      [] label = "fetchRates" -> 2
      [] label = "parse" -> 3
      [] label = "loop" -> 4
      [] label = "top5" -> 5
      [] label = "render" -> 6
      [] label = "done" -> 7

Succeeded(f) == f.kind = "response" /\ f.ok

Records(r) ==
    IF countriesData[r].t = "array" THEN Len(Val(countriesData[r])) ELSE 0

StepOrder(r) ==
    /\ pc'[r] # pc[r]
          => \/ pc[r] \in {"idle", "done"} /\ pc'[r] \in {"idle", "fetchCountries", "done"}
             \/ pc[r] \notin {"idle", "done"}
                   /\ (Rank(pc'[r]) = Rank(pc[r]) + 1 \/ pc'[r] = "done")
    /\ (wrote'[r] # wrote[r] /\ wrote'[r] # <<>>)
          => /\ pc[r] = "loop" /\ pc'[r] = "loop"
             /\ Succeeded(response[r])
             /\ Succeeded(exchangeInUSD[r])
             /\ Len(wrote'[r]) = Len(wrote[r]) + 1
             /\ i'[r] = i[r] + 1
    /\ (store' # store /\ pc'[r] # "idle") => \E q \in Runs : wrote'[q] # wrote[q]
    /\ (pc'[r] = "top5" /\ pc[r] # "top5")
          => i[r] = Records(r) /\ Len(wrote[r]) = Records(r)
    /\ artifact' # artifact => \E q \in Runs : pc[q] = "render"
    /\ (SuccessOutcome(outcome'[r]) /\ ~SuccessOutcome(outcome[r]))
          => /\ pc[r] = "render"
             /\ artifact'.state = "written"
             /\ artifact'.total = totalCountries[r]
             /\ Len(artifact'.top) = Len(top5[r])

C15_StepOrder == [][\A r \in Runs : StepOrder(r)]_vars

\* A run went through every step: two records upserted, the summary read
\* and written, success answered.
C15_Witness ==
    \E r \in Runs :
        /\ pc[r] = "done"
        /\ SuccessOutcome(outcome[r])
        /\ Len(wrote[r]) = 2
        /\ totalCountries[r] = Len(store)
        /\ artifact.state = "written"
        /\ artifact.total = totalCountries[r]

(***************************************************************************)
(* C16.  Whatever the interleaving of two refresh runs, the table holds    *)
(* at most one row per name, and the row of a name carries in all its      *)
(* mutable columns the values of one upsert, the one on that name that     *)
(* landed last, and in created_at the time of the first insert of the      *)
(* name.                                                                   *)
(***************************************************************************)
C16_LastUpsertWinsWhole ==
    /\ \A j, k \in 1..Len(store) : j # k => store[j].name # store[k].name
    /\ \A j \in 1..Len(store) :
          /\ store[j].name \in DOMAIN landed
          /\ CarriesValues(store[j], landed[store[j].name].params)
          /\ store[j].created_at = Num(landed[store[j].name].inserted)
    /\ \A r \in Runs : \A k \in 1..Len(wrote[r]) :
          wrote[r][k].name \in NamesOf(store)

\* Both runs are in their loops; the first inserted a name, the second
\* upserted it afterwards with other values: the row has the second run's
\* values in every mutable column and the first run's created_at.
C16_Witness ==
    /\ pc["r1"] = "loop" /\ pc["r2"] = "loop"
    /\ \E j \in 1..Len(store) :
          LET name == store[j].name
          IN  /\ landed[name].by = "r2"
              /\ \E k \in 1..Len(wrote["r1"]) :
                    /\ wrote["r1"][k].name = name
                    /\ wrote["r1"][k].capital # store[j].capital
                    /\ wrote["r1"][k].region # store[j].region
                    /\ wrote["r1"][k].population # store[j].population
                    /\ wrote["r1"][k].flag_url # store[j].flag_url
                    /\ wrote["r1"][k].last_refreshed_at # store[j].last_refreshed_at
              /\ store[j].created_at # store[j].last_refreshed_at
              /\ CarriesValues(store[j], wrote["r2"][Len(wrote["r2"])])

(***************************************************************************)
(* C17.  When the rendering step of a run fails (the image is not          *)
(* generated, or not completely written), the run answers a failure, not   *)
(* success; the step changes no row; every row the run upserted is in the  *)
(* table with the values of the run's last upsert of its name; and every   *)
(* other row is as it was before the run.                                  *)
(***************************************************************************)
RenderFails(r) ==
    /\ pc[r] = "render"
    /\ pc'[r] = "done"
    /\ artifact'.state # "written" \/ artifact' = artifact

RowsOfRunCommitted(r, rows) ==
    /\ \A k \in 1..Len(wrote[r]) :
          /\ RowsNamed(rows, wrote[r][k].name) # {}
          /\ CarriesValues(RowNamed(rows, wrote[r][k].name), LastWrite(r, k))
    /\ \A j \in 1..Len(rows) :
          (\A k \in 1..Len(wrote[r]) : wrote[r][k].name # rows[j].name)
             => \E m \in 1..Len(before[r].rows) : before[r].rows[m] = rows[j]
    /\ \A m \in 1..Len(before[r].rows) : before[r].rows[m].name \in NamesOf(rows)

C17_RenderFailureKeepsRows ==
    [][\A r \in Runs :
          RenderFails(r)
          => /\ ~SuccessOutcome(outcome'[r])
             /\ InternalFailureOutcome(outcome'[r])
             /\ store' = store
             /\ wrote' = wrote
             /\ RowsOfRunCommitted(r, store')]_vars

\* A run that updated one row and inserted another, on a table that had a
\* third, failed while writing the image.
C17_Witness ==
    \E r \in Runs :
        /\ pc[r] = "done"
        /\ InternalFailureOutcome(outcome[r])
        /\ top5[r] # <<>>
        /\ artifact.state = "partial"
        /\ Len(wrote[r]) >= 1
        /\ Len(store) > Len(wrote[r])
        /\ RowsOfRunCommitted(r, store)

(***************************************************************************)
(* C18.  The image written by a refresh that answers success shows, as     *)
(* total, the number of rows of the table (the rows of earlier runs        *)
(* included) and a list of min(5, total) entries numbered 1, 2, ...: the   *)
(* names and estimates of distinct rows of the table, in GDP-descending    *)
(* order with nulls last, and no row left out sorts above a listed one.    *)
(* (One refresh at a time: the table at the reads is the table at the      *)
(* answer.)                                                                *)
(***************************************************************************)
Succeeded18(r) == pc[r] = "done" /\ SuccessOutcome(outcome[r])

SummaryOfTable(image, rows) ==
    /\ image.state = "written"
    /\ image.total = Len(rows)
    /\ Len(image.top) = (IF Len(rows) < 5 THEN Len(rows) ELSE 5)
    /\ \A k \in 1..Len(image.top) :
          /\ image.top[k].num = k
          /\ \E j \in 1..Len(rows) :
                /\ rows[j].name = image.top[k].name
                /\ rows[j].estimated_gdp = image.top[k].estimated_gdp
    /\ \A k, m \in 1..Len(image.top) :
          /\ k # m => image.top[k].name # image.top[m].name
          /\ k < m => MayPrecede(image.top[k], image.top[m])
    /\ \A j \in 1..Len(rows) :
          (\A k \in 1..Len(image.top) : image.top[k].name # rows[j].name)
             => \A k \in 1..Len(image.top) : MayPrecede(image.top[k], rows[j])

C18_SummaryTotalAndTop5 ==
    \A r \in Runs : Succeeded18(r) => SummaryOfTable(artifact, store)

\* A run added two rows to a table of six: the image counts eight and
\* lists five, one of them a row of this run.
C18_Witness ==
    \E r \in Runs :
        /\ Succeeded18(r)
        /\ Len(wrote[r]) = 2
        /\ Len(before[r].rows) = 6
        /\ artifact.total = 8
        /\ Len(artifact.top) = 5
        /\ \E k \in 1..5 : artifact.top[k].name = wrote[r][1].name
        /\ \E j \in 1..Len(store) :
              /\ store[j].estimated_gdp # Null
              /\ \A k \in 1..5 : artifact.top[k].name # store[j].name

(***************************************************************************)
(* C19.  A delete request for a name that has a row removes that row and   *)
(* no other, leaves the other rows as they are, and answers success; for   *)
(* a name without a row it answers not-found and leaves the table as it    *)
(* is.  A refresh that upserts a name deleted before inserts a new row:    *)
(* the values are those of the refresh, created_at is the time of that     *)
(* upsert, later than the insert of the deleted row.                       *)
(***************************************************************************)
DeleteAnswered == deleteRes'.state = "sent" /\ deleteRes' # deleteRes

DeleteStep ==
    DeleteAnswered
    => LET name == deleteRes'.name
       IN  /\ deleteRes'.status \in {200, 404, 500}
           /\ deleteRes'.status = 200
                 => /\ RowsNamed(store, name) # {}
                    /\ RowsNamed(store', name) = {}
                    /\ Len(store') = Len(store) - 1
                    /\ \A j \in 1..Len(store) :
                          store[j].name # name
                             => \E k \in 1..Len(store') : store'[k] = store[j]
           /\ deleteRes'.status = 404
                 => RowsNamed(store, name) = {} /\ store' = store
           /\ deleteRes'.status = 500 => store' = store
           /\ RowsNamed(store, name) = {} => deleteRes'.status # 200

\* The name had a row that was deleted, and has a row again.
Recreated(name) ==
    /\ name \in DOMAIN landed
    /\ landed[name].inserts >= 2
    /\ ~landed[name].deleted

RecreatedAsNewInsert ==
    \A r \in Runs : \A k \in 1..Len(wrote[r]) :
        LET name == wrote[r][k].name
        IN  (Recreated(name) /\ name \notin NamesOf(before[r].rows))
            => /\ Cardinality(RowsNamed(store, name)) = 1
               /\ CarriesValues(RowNamed(store, name), LastWrite(r, k))
               /\ RowNamed(store, name).created_at = FirstWrite(r, k).last_refreshed_at
               /\ Val(RowNamed(store, name).created_at) > 1

C19_DeleteRemovesExactlyOne ==
    /\ [][DeleteStep]_vars
    /\ []RecreatedAsNewInsert
    /\ [](\A name \in DOMAIN landed :
             landed[name].deleted <=> name \notin NamesOf(store))

\* After the deletion of one of two rows (the other row stayed), a refresh
\* has inserted the name again.
C19_Witness ==
    \E r \in Runs : \E k \in 1..Len(wrote[r]) :
        /\ Recreated(wrote[r][k].name)
        /\ wrote[r][k].name \notin NamesOf(before[r].rows)
        /\ Len(before[r].rows) = 1
        /\ Len(store) = 2
        /\ RowNamed(store, wrote[r][k].name).created_at = Num(now)
        /\ \E j \in 1..Len(store) : store[j] = before[r].rows[1]

(***************************************************************************)
(* C20.  A status read whose query went through is answered with success:  *)
(* on a table without rows with total 0 and last_refreshed_at null, on a   *)
(* table with rows with the number of rows; and the read leaves the table  *)
(* as it is.  Holds of getStatus of database.js (Spec); getStatus of       *)
(* controller.js (C_Spec) sends no answer for a table without rows.        *)
(***************************************************************************)
StatusRead == statusRes.state # "none" /\ statusRes.status # 500

StatusReadAnswer ==
    StatusRead
    => /\ statusRes.state = "sent"
       /\ statusRes.status = 200
       /\ IF Len(store) = 0
          THEN /\ statusRes.total = Num(0)
               /\ statusRes.last_refreshed_at = Null
          ELSE StatusCount(statusRes) = Num(Len(store))

StatusReadStep ==
    (statusRes'.state # "none" /\ statusRes' # statusRes)
    => store' = store /\ landed' = landed

C20_StatusOfEmptyStore == []StatusReadAnswer /\ [][StatusReadStep]_vars

(***************************************************************************)
(* C21.  The loop of a refresh upserts the records of the fetched list one *)
(* per step and in the order of the list: the k-th upsert of the run is    *)
(* that of the k-th record.  Once the loop is through, the row of a name   *)
(* carries in its mutable columns the values of the last record of that    *)
(* name in the list.                                                       *)
(***************************************************************************)
SourceList(r) == Val(countriesData[r])
SourceRecord(r, k) == replaceUndefined(SourceList(r)[k], RequiredKeys)
SourceName(r, k) == Prop(SourceRecord(r, k), "name")

\* The bind parameters are those of the record.
UpsertOfRecord(params, record) ==
    /\ params.name = Prop(record, "name")
    /\ params.capital = Prop(record, "capital")
    /\ params.region = Prop(record, "region")
    /\ params.population = Prop(record, "population")
    /\ params.flag_url = Prop(record, "flag")
    /\ params.currency_code = CurrencyCode(Prop(record, "currencies"))

InSourceOrder(r) ==
    countriesData[r].t = "array"
    => /\ Len(wrote[r]) = i[r]
       /\ i[r] <= Len(SourceList(r))
       /\ \A k \in 1..Len(wrote[r]) :
             UpsertOfRecord(wrote[r][k], SourceRecord(r, k))

LastOccurrence(r, k) ==
    CHOOSE m \in 1..Len(SourceList(r)) :
        /\ SourceName(r, m) = SourceName(r, k)
        /\ \A n \in 1..Len(SourceList(r)) :
              SourceName(r, n) = SourceName(r, k) => n <= m

LoopThrough(r) ==
    /\ countriesData[r].t = "array"
    /\ i[r] = Len(SourceList(r))

LastOccurrenceWins(r) ==
    LoopThrough(r)
    => \A k \in 1..Len(SourceList(r)) :
          LET m == LastOccurrence(r, k)
              rows == RowsNamed(store, SourceName(r, k))
          IN  /\ Cardinality(rows) = 1
              /\ \A j \in rows :
                    /\ UpsertOfRecord(store[j], SourceRecord(r, m))
                    /\ store[j].exchange_rate = wrote[r][m].exchange_rate
                    /\ store[j].estimated_gdp = Decimal2(wrote[r][m].estimated_gdp)
                    /\ store[j].last_refreshed_at = wrote[r][m].last_refreshed_at

OneUpsertPerStep ==
    \A r \in Runs :
        (wrote'[r] # wrote[r] /\ wrote'[r] # <<>>)
        => /\ Len(wrote'[r]) = Len(wrote[r]) + 1
           /\ SubSeq(wrote'[r], 1, Len(wrote[r])) = wrote[r]
           /\ i'[r] = i[r] + 1
           /\ \A q \in Runs \ {r} : wrote'[q] = wrote[q]

C21_LastOccurrenceWins ==
    /\ [](\A r \in Runs : InSourceOrder(r) /\ LastOccurrenceWins(r))
    /\ [][OneUpsertPerStep]_vars

\* A run that ended with success had one name twice in its list, with
\* different values; the row has those of the second record.
C21_Witness ==
    \E r \in Runs :
        /\ pc[r] = "done"
        /\ SuccessOutcome(outcome[r])
        /\ LoopThrough(r)
        /\ Len(SourceList(r)) = 2
        /\ SourceName(r, 1) = SourceName(r, 2)
        /\ Prop(SourceRecord(r, 1), "capital") # Prop(SourceRecord(r, 2), "capital")
        /\ RowNamed(store, SourceName(r, 1)).capital = Prop(SourceRecord(r, 2), "capital")
        /\ RowNamed(store, SourceName(r, 1)).region = Prop(SourceRecord(r, 2), "region")

(***************************************************************************)
(* C22.  A refresh that ends with a failure answer at one of the fetches,  *)
(* at the parse step or inside the per-record loop leaves the summary file *)
(* as it was when the run began: the same image, or still no file.  No     *)
(* step of a run before its render step touches the file.                  *)
(***************************************************************************)
FailedAtFetch(r) == pc[r] = "done" /\ UpstreamFetchOutcome(outcome[r])

FailedAtParse(r) ==
    /\ pc[r] = "done"
    /\ outcome[r] = [status |-> 502, body |-> "Invalid response from external APIs"]

FailedInLoop(r) ==
    /\ pc[r] = "done"
    /\ InternalFailureOutcome(outcome[r])
    /\ response[r].kind = "response"
    /\ exchangeInUSD[r].kind = "response"
    /\ LengthThrows(countriesData[r]) \/ i[r] < Length(countriesData[r])

FailedBeforeAggregation(r) ==
    FailedAtFetch(r) \/ FailedAtParse(r) \/ FailedInLoop(r)

ArtifactAsBeforeRun ==
    \A r \in Runs : FailedBeforeAggregation(r) => artifact = before[r].artifact

EarlyStepKeepsArtifact ==
    \A r \in Runs :
        (/\ pc[r] \in {"fetchCountries", "fetchRates", "parse", "loop"}
         /\ pc'[r] # pc[r] \/ i'[r] # i[r])
        => artifact' = artifact

C22_FailedRunKeepsArtifact ==
    []ArtifactAsBeforeRun /\ [][EarlyStepKeepsArtifact]_vars

\* After a refresh that wrote the image, a refresh committed a row and then
\* failed inside the loop: the image is the one of the earlier refresh.
C22_Witness ==
    \E r \in Runs :
        /\ FailedInLoop(r)
        /\ wrote[r] # <<>>
        /\ before[r].artifact.state = "written"
        /\ artifact = before[r].artifact
        /\ artifact.timestamp < now

(***************************************************************************)
(* C23.  A record of the fetched list that has no name gets name = null    *)
(* from the normalisation and is never upserted: the run ends at that      *)
(* record with the internal-failure answer, the rows of the records before *)
(* it stay as the run wrote them, no record after it is upserted, and the  *)
(* table never holds a row whose name is null.                             *)
(***************************************************************************)
Nameless(record) == IsNullish(Prop(record, "name"))

\* The record the loop of run r is at has no name.
AtNameless(r) ==
    /\ countriesData[r].t = "array"
    /\ i[r] < Len(SourceList(r))
    /\ Nameless(SourceList(r)[i[r] + 1])

NoNullName == \A j \in 1..Len(store) : ~IsNullish(store[j].name)

NamelessNormalised ==
    \A r \in Runs :
        AtNameless(r) => Prop(SourceRecord(r, i[r] + 1), "name") = Null

StoppedAtNameless(r) ==
    (pc[r] = "done" /\ AtNameless(r))
    => /\ InternalFailureOutcome(outcome[r])
       /\ Len(wrote[r]) = i[r]
       /\ \A k \in 1..i[r] :
             /\ ~Nameless(SourceList(r)[k])
             /\ RowsNamed(store, SourceName(r, k)) # {}
             /\ CarriesValues(RowNamed(store, SourceName(r, k)), LastWrite(r, k))
       /\ \A j \in 1..Len(store) :
             (\A k \in 1..i[r] : SourceName(r, k) # store[j].name)
                => \E m \in 1..Len(before[r].rows) : before[r].rows[m] = store[j]

\* The step the loop takes at a record without a name ends the run.
NamelessStep ==
    \A r \in Runs :
        (/\ pc[r] = "loop"
         /\ AtNameless(r)
         /\ pc'[r] # pc[r] \/ i'[r] # i[r])
        => /\ pc'[r] = "done"
           /\ InternalFailureOutcome(outcome'[r])
           /\ i'[r] = i[r]
           /\ store' = store

C23_NamelessRecordStopsRun ==
    /\ [](NoNullName /\ NamelessNormalised /\ \A r \in Runs : StoppedAtNameless(r))
    /\ [][NamelessStep]_vars

\* The second of three records had no name: the row of the first is in the
\* table, the third, a name new to the table, has none.
C23_Witness ==
    \E r \in Runs :
        /\ pc[r] = "done"
        /\ AtNameless(r)
        /\ i[r] = 1
        /\ Len(SourceList(r)) = 3
        /\ "name" \notin DOMAIN Val(SourceList(r)[2])
        /\ SourceName(r, 1) \in NamesOf(store)
        /\ SourceName(r, 1) \notin NamesOf(before[r].rows)
        /\ ~Nameless(SourceList(r)[3])
        /\ SourceName(r, 3) \notin NamesOf(store)

====
